---- MODULE Spec2Model ----
(***************************************************************************)
(* A model of the Teeworlds external-console client                        *)
(* (src/src/service/econ.ts, class TeeworldsEcon).                         *)
(*                                                                         *)
(* One TeeworldsEcon instance, the sockets it opens with net.connect, the  *)
(* timers it arms with setTimeout and the promises its connect() calls     *)
(* return.  Text is a sequence of tokens; "\n" is the line terminator.     *)
(* Every connect() call is one "attempt"; attempt k owns socket k, timer k *)
(* and promise k, which is how the closures of connect() capture them.     *)
(***************************************************************************)
EXTENDS Integers, Sequences, FiniteSets, TLC

(* ------------------------------ bounds -------------------------------- *)

\* number of connect() calls in a behaviour
MaxAttempts == 2
\* length of the unterminated text a stream may have delivered (history)
MaxPend == 1
\* number of send() results that may wait for one socket's 'drain'
MaxWait == 1

Attempts == 1..MaxAttempts

(* ------------------------------- text --------------------------------- *)

NL == "\n"
PROMPT == <<"Enter password:">>
AUTH == <<"Authentication success", "ful.">>
WRONG == <<"Wrong password.">>
PASSWORD == <<"secret">>

\* the whitespace String.prototype.trimEnd strips, as far as the alphabet has it
Whitespace == {NL}

\* the chunks a socket's 'data' event may carry: whole lines, a line cut in
\* two, two lines in one chunk
Chunks ==
  { PROMPT \o <<NL>>, AUTH \o <<NL>>, WRONG \o <<NL>>,
    <<AUTH[1]>>, <<AUTH[2], NL>>,
    PROMPT \o <<NL>> \o AUTH \o <<NL>> }

\* the arguments of send(): one command, or an array of commands
Commands ==
  { [isArray |-> FALSE, cmds |-> << <<"status">> >>],
    [isArray |-> TRUE, cmds |-> << <<"echo hi">> >>],
    [isArray |-> TRUE, cmds |-> << <<"status">>, <<"echo hi">> >>] }

StartsWith(s, p) == Len(s) >= Len(p) /\ SubSeq(s, 1, Len(p)) = p

RECURSIVE TrimEnd(_)
TrimEnd(s) ==
  IF s = <<>> THEN s
  ELSE IF s[Len(s)] \in Whitespace THEN TrimEnd(SubSeq(s, 1, Len(s) - 1))
  ELSE s

\* data.toString('utf-8').trimEnd(): what the 'data' handler calls "line"
LineOf(chunk) == TrimEnd(chunk)

RECURSIVE Join(_)
\* Array.prototype.join('\n')
Join(cmds) ==
  IF Len(cmds) = 0 THEN <<>>
  ELSE IF Len(cmds) = 1 THEN cmds[1]
  ELSE cmds[1] \o <<NL>> \o Join(Tail(cmds))

\* a send() that joins the commands and forgets the trailing terminator
PayloadJoinOnly(command) ==
  IF command.isArray THEN Join(command.cmds)
  ELSE command.cmds[1] \o <<NL>>

\* the text send() hands to conn.write
Payload(command) ==
  IF command.isArray THEN Join(command.cmds) \o <<NL>>
  ELSE command.cmds[1] \o <<NL>>

(* ------------------------------ state --------------------------------- *)

VARIABLES
  state,         \* this.state
  conn,          \* this.conn: 0 (unset/null) or the socket's attempt number
  timeout,       \* this.timeout: 0 (unset/null) or the timer's attempt number
  messageHooks,  \* a 'message' listener is registered
  closeHook,     \* a 'close' listener is registered
  errorHook,     \* an 'error' listener is registered
  nconn,         \* number of connect() calls so far
  life,          \* per socket: "none", "open", "closed"
  ended,         \* per socket: end() was called on it
  timer,         \* per timer: "none", "armed", "fired", "cleared"
  promise,       \* per connect() result: "none", "pending", "resolved",
                 \*   "timeout", "wrongpw"
  waiting,       \* per socket: send() results waiting for 'drain'
  op,            \* the operation of the last step
  lines,         \* the lines the 'data' listener took up in the last step
  wrote,         \* the conn.write calls of the last step: <<socket, text>>
  notes,         \* the listener calls of the last step
  threw,         \* the error the last call threw, "" for none
  pend,          \* history, per socket: text received after the last "\n"
  pwsent,        \* history: the password was written to the transport of
                 \*   the latest connect()
  qf,            \* where a quickfire() call stands, "off" when there is none
  collect,       \* quickfire's collectResponsesFor is non-zero
  responses      \* quickfire's responses array

prog == <<state, conn, timeout, messageHooks, closeHook, errorHook>>
env == <<nconn, life, ended, timer, promise, waiting>>
obs == <<op, lines, wrote, notes, threw>>
hist == <<pend, pwsent>>
quick == <<qf, collect, responses>>
vars == <<prog, env, obs, hist, quick>>

\* a new TeeworldsEcon, nothing opened yet
Fresh ==
  /\ state = "disconnected"
  /\ conn = 0
  /\ timeout = 0
  /\ messageHooks = FALSE
  /\ closeHook = FALSE
  /\ errorHook = FALSE
  /\ nconn = 0
  /\ life = [k \in Attempts |-> "none"]
  /\ ended = [k \in Attempts |-> FALSE]
  /\ timer = [k \in Attempts |-> "none"]
  /\ promise = [k \in Attempts |-> "none"]
  /\ waiting = [k \in Attempts |-> 0]
  /\ wrote = <<>>
  /\ notes = <<>>
  /\ threw = ""
  /\ op = "new"
  /\ lines = <<>>
  /\ pend = [k \in Attempts |-> <<>>]
  /\ pwsent = FALSE

\* an instance its owner drives through connect, disconnect, send and on
Init ==
  /\ Fresh
  /\ qf = "off"
  /\ collect = FALSE
  /\ responses = <<>>

(* ----------------------------- helpers -------------------------------- *)

\* resolve()/reject() of a promise: only the first call settles it
Settle(p, k, v) == IF p[k] = "pending" THEN [p EXCEPT ![k] = v] ELSE p

\* clearTimeout(h): a timer that has not fired yet never fires
ClearTimeout(t, h) == IF t[h] = "armed" THEN [t EXCEPT ![h] = "cleared"] ELSE t

\* history: the text after the last "\n" of s
RECURSIVE Residue(_)
Residue(s) ==
  IF s = <<>> THEN <<>>
  ELSE IF s[Len(s)] = NL THEN <<>>
  ELSE Residue(SubSeq(s, 1, Len(s) - 1)) \o <<s[Len(s)]>>

(* ----------------------------- actions -------------------------------- *)

\* connect(): no guard on this.state
Connect ==
  /\ op' = "connect"
  /\ lines' = <<>>
  /\ nconn < MaxAttempts
  /\ LET k == nconn + 1 IN
     /\ state' = "connecting"
     /\ conn' = k
     /\ timeout' = k
     /\ nconn' = k
     /\ life' = [life EXCEPT ![k] = "open"]
     /\ timer' = [timer EXCEPT ![k] = "armed"]
     /\ promise' = [promise EXCEPT ![k] = "pending"]
  /\ wrote' = <<>>
  /\ notes' = <<>>
  /\ threw' = ""
  /\ pwsent' = FALSE
  /\ UNCHANGED <<messageHooks, closeHook, errorHook, ended, waiting, pend>>

\* a disconnect() that forgets this.conn = null
DoDisconnectKeepsConn ==
  IF state # "disconnected" \/ conn # 0
    THEN /\ state' = "disconnected"
         /\ conn' = conn
         /\ ended' = IF conn # 0 THEN [ended EXCEPT ![conn] = TRUE] ELSE ended
         /\ threw' = IF conn = 0 THEN "TypeError" ELSE ""
    ELSE /\ UNCHANGED <<state, conn, ended>>
         /\ threw' = ""

\* disconnect() without its guard
DoDisconnectUnguarded ==
  /\ state' = "disconnected"
  /\ conn' = 0
  /\ ended' = IF conn # 0 THEN [ended EXCEPT ![conn] = TRUE] ELSE ended
  /\ threw' = IF conn = 0 THEN "TypeError" ELSE ""

\* the body of disconnect(): conn.end() on a missing conn is a TypeError
DoDisconnect ==
  IF state # "disconnected" \/ conn # 0
    THEN /\ state' = "disconnected"
         /\ conn' = 0
         /\ ended' = IF conn # 0 THEN [ended EXCEPT ![conn] = TRUE] ELSE ended
         /\ threw' = IF conn = 0 THEN "TypeError" ELSE ""
    ELSE /\ UNCHANGED <<state, conn, ended>>
         /\ threw' = ""

\* disconnect()
Disconnect ==
  /\ op' = "disconnect"
  /\ lines' = <<>>
  /\ DoDisconnect
  /\ wrote' = <<>>
  /\ notes' = <<>>
  /\ UNCHANGED <<timeout, messageHooks, closeHook, errorHook, nconn, life,
                 timer, promise, waiting, pend, pwsent>>

\* a timer callback that closes the connection and forgets to reject
OnTimeoutSilent(k) ==
  /\ DoDisconnect
  /\ promise' = promise

\* the setTimeout callback of attempt k while this.state == 'connecting':
\* this.disconnect(); reject(new Error('Connection timeout.'))
OnTimeout(k) ==
  /\ DoDisconnect
  /\ promise' = IF conn = 0 THEN promise ELSE Settle(promise, k, "timeout")

\* the setTimeout callback of attempt k
TimerFire(k) ==
  /\ op' = "timer"
  /\ lines' = <<>>
  /\ timer[k] = "armed"
  /\ timer' = [timer EXCEPT ![k] = "fired"]
  /\ IF state = "connecting"
       THEN OnTimeout(k)
       ELSE /\ UNCHANGED <<state, conn, ended, promise>>
            /\ threw' = ""
  /\ wrote' = <<>>
  /\ notes' = <<>>
  /\ UNCHANGED <<timeout, messageHooks, closeHook, errorHook, nconn, life,
                 waiting, pend, pwsent>>

\* an 'Enter password:' branch that answers nothing
OnPromptSilent ==
  /\ wrote' = <<>>
  /\ threw' = ""
  /\ notes' = <<>>
  /\ UNCHANGED <<state, timeout, timer, promise>>

\* an 'Enter password:' branch that also hands the line to the listener
OnPromptForwards ==
  /\ wrote' = IF conn = 0 THEN <<>> ELSE << <<conn, PASSWORD \o <<NL>> >> >>
  /\ threw' = IF conn = 0 THEN "TypeError" ELSE ""
  /\ notes' = IF messageHooks THEN << <<"message", PROMPT>> >> ELSE <<>>
  /\ UNCHANGED <<state, timeout, timer, promise>>

\* 'Enter password:' while connecting: this.conn.write(password + '\n')
OnPrompt ==
  /\ wrote' = IF conn = 0 THEN <<>> ELSE << <<conn, PASSWORD \o <<NL>> >> >>
  /\ threw' = IF conn = 0 THEN "TypeError" ELSE ""
  /\ notes' = <<>>
  /\ UNCHANGED <<state, timeout, timer, promise>>

\* an 'Authentication successful.' branch that forgets clearTimeout
OnAuthKeepsTimer(k) ==
  /\ state' = "connected"
  /\ timer' = timer
  /\ timeout' = 0
  /\ promise' = Settle(promise, k, "resolved")
  /\ wrote' = <<>>
  /\ notes' = <<>>
  /\ threw' = ""

\* 'Authentication successful.' while connecting, in the listener of attempt k
OnAuth(k) ==
  /\ state' = "connected"
  /\ timer' = IF timeout # 0 THEN ClearTimeout(timer, timeout) ELSE timer
  /\ timeout' = 0
  /\ promise' = Settle(promise, k, "resolved")
  /\ wrote' = <<>>
  /\ notes' = <<>>
  /\ threw' = ""

\* a 'Wrong password.' branch that goes on silently
OnWrongIgnored(k) ==
  /\ wrote' = <<>>
  /\ notes' = <<>>
  /\ threw' = ""
  /\ UNCHANGED <<state, timeout, timer, promise>>

\* 'Wrong password.' while connecting, in the listener of attempt k
OnWrong(k) ==
  /\ promise' = Settle(promise, k, "wrongpw")
  /\ wrote' = <<>>
  /\ notes' = <<>>
  /\ threw' = ""
  /\ UNCHANGED <<state, timeout, timer>>

\* any chunk while not connecting: this.messageHooks?.(line)
OnMessage(line) ==
  /\ notes' = IF messageHooks THEN << <<"message", line>> >> ELSE <<>>
  /\ wrote' = <<>>
  /\ threw' = ""
  /\ UNCHANGED <<state, timeout, timer, promise>>

\* the 'data' listener connect() put on socket k, called with chunk c
Data(k, c) ==
  /\ op' = "data"
  /\ lines' = <<LineOf(c)>>
  /\ life[k] = "open"
  /\ Len(Residue(pend[k] \o c)) <= MaxPend
  /\ LET line == LineOf(c) IN
     IF state = "connecting"
       THEN IF StartsWith(line, PROMPT) THEN OnPrompt
            ELSE IF StartsWith(line, AUTH) THEN OnAuth(k)
            ELSE IF StartsWith(line, WRONG) THEN OnWrong(k)
            ELSE /\ wrote' = <<>>
                 /\ notes' = <<>>
                 /\ threw' = ""
                 /\ UNCHANGED <<state, timeout, timer, promise>>
       ELSE OnMessage(line)
  /\ pend' = [pend EXCEPT ![k] = Residue(@ \o c)]
  /\ pwsent' = (pwsent \/ wrote' # <<>>)
  /\ UNCHANGED <<conn, messageHooks, closeHook, errorHook, nconn, life, ended,
                 waiting>>

\* a send() that only refuses when disconnected
SendAllowedLoose == state # "disconnected"

\* the guard of send()
SendAllowed == state = "connected"

\* a send() that never waits for 'drain'
AwaitDrainNever(w, k, flushed) == w

\* if (!flushed) return new Promise(resolve => conn.once('drain', resolve)):
\* one more send() result waits on socket k, else the result is complete
AwaitDrain(w, k, flushed) ==
  IF ~flushed THEN [w EXCEPT ![k] = @ + 1] ELSE w

\* send(command); flushed is what conn.write returns
Send(command, flushed) ==
  /\ op' = "send"
  /\ lines' = <<>>
  /\ IF SendAllowed
       THEN /\ conn # 0 => (flushed \/ waiting[conn] < MaxWait)
            /\ wrote' = IF conn = 0 THEN <<>> ELSE << <<conn, Payload(command)>> >>
            /\ threw' = IF conn = 0 THEN "TypeError" ELSE ""
            /\ waiting' = IF conn # 0 THEN AwaitDrain(waiting, conn, flushed)
                            ELSE waiting
       ELSE /\ threw' = "Connection not established"
            /\ wrote' = <<>>
            /\ UNCHANGED waiting
  /\ notes' = <<>>
  /\ UNCHANGED <<prog, nconn, life, ended, timer, promise, pend, pwsent>>

\* socket k emits 'drain': the listeners send() registered with once() run
Drain(k) ==
  /\ op' = "drain"
  /\ lines' = <<>>
  /\ life[k] = "open"
  /\ waiting[k] > 0
  /\ waiting' = [waiting EXCEPT ![k] = 0]
  /\ wrote' = <<>>
  /\ notes' = <<>>
  /\ threw' = ""
  /\ UNCHANGED <<prog, nconn, life, ended, timer, promise, pend, pwsent>>

\* on(event, listener)
On(event) ==
  /\ op' = "on"
  /\ lines' = <<>>
  /\ messageHooks' = (messageHooks \/ event = "message")
  /\ closeHook' = (closeHook \/ event = "close")
  /\ errorHook' = (errorHook \/ event = "error")
  /\ wrote' = <<>>
  /\ notes' = <<>>
  /\ threw' = ""
  /\ UNCHANGED <<state, conn, timeout, env, hist>>

\* socket k fails: it emits 'error' (err => this.errorHook?.(err)) and, in
\* the same turn of the event loop, 'close' with hadError = true
SockError(k) ==
  /\ op' = "error"
  /\ lines' = <<>>
  /\ life[k] = "open"
  /\ life' = [life EXCEPT ![k] = "closed"]
  /\ notes' = (IF errorHook THEN << <<"error", <<"err">> >> >> ELSE <<>>)
              \o (IF closeHook THEN << <<"close", <<"hadError">> >> >> ELSE <<>>)
  /\ wrote' = <<>>
  /\ threw' = ""
  /\ UNCHANGED <<prog, nconn, ended, timer, promise, waiting, pend, pwsent>>

\* a 'close' listener that also marks the instance disconnected
SockCloseDisconnects(k) ==
  /\ op' = "close"
  /\ lines' = <<>>
  /\ life[k] = "open"
  /\ life' = [life EXCEPT ![k] = "closed"]
  /\ notes' = IF closeHook THEN << <<"close", <<>> >> >> ELSE <<>>
  /\ wrote' = <<>>
  /\ threw' = ""
  /\ state' = IF conn = k THEN "disconnected" ELSE state
  /\ conn' = IF conn = k THEN 0 ELSE conn
  /\ UNCHANGED <<timeout, messageHooks, closeHook, errorHook, nconn, ended,
                 timer, promise, waiting, pend, pwsent>>

\* socket k emits 'close' with hadError = false:
\* hadError => this.closeHook?.(hadError)
SockClose(k) ==
  /\ op' = "close"
  /\ lines' = <<>>
  /\ life[k] = "open"
  /\ life' = [life EXCEPT ![k] = "closed"]
  /\ notes' = IF closeHook THEN << <<"close", <<>> >> >> ELSE <<>>
  /\ wrote' = <<>>
  /\ threw' = ""
  /\ UNCHANGED <<prog, nconn, ended, timer, promise, waiting, pend, pwsent>>

\* the owner of the instance calls its methods and the socket and the timer
\* raise their events; no quickfire() call is running
OwnerConnect == Connect /\ UNCHANGED quick

OwnerDisconnect == Disconnect /\ UNCHANGED quick

OwnerSend(command, flushed) == Send(command, flushed) /\ UNCHANGED quick

OwnerOn(event) == On(event) /\ UNCHANGED quick

EvTimerFire(k) == TimerFire(k) /\ UNCHANGED quick

EvData(k, c) == Data(k, c) /\ UNCHANGED quick

EvDrain(k) == Drain(k) /\ UNCHANGED quick

EvSockError(k) == SockError(k) /\ UNCHANGED quick

EvSockClose(k) == SockClose(k) /\ UNCHANGED quick

Next ==
  \/ OwnerConnect
  \/ OwnerDisconnect
  \/ \E k \in Attempts : EvTimerFire(k)
  \/ \E k \in Attempts, c \in Chunks : EvData(k, c)
  \/ \E command \in Commands, flushed \in BOOLEAN : OwnerSend(command, flushed)
  \/ \E k \in Attempts : EvDrain(k)
  \/ \E event \in {"message", "close", "error"} : OwnerOn(event)
  \/ \E k \in Attempts : EvSockError(k)
  \/ \E k \in Attempts : EvSockClose(k)

Spec == Init /\ [][Next]_vars

(* ---------------------------- quickfire ------------------------------- *)

\* number of lines quickfire's responses array may hold
MaxResponses == 2

\* quickfire's code is running: a continuation of an await or the code
\* between two calls, which no event of the socket or a timer can precede
QfBusy ==
  \/ qf = "connecting" /\ promise[1] \in {"resolved", "timeout", "wrongpw"}
  \/ qf \in {"subscribed", "closing"}

\* quickfire awaits an event: the call was made and none of its code is ready
QfIdle == qf \notin {"off", "start"} /\ ~QfBusy

\* what follows a completed send(): the window timer or the disconnect
AfterSend == IF collect THEN "window" ELSE "closing"

\* const econ = new TeeworldsEcon(options); await econ.connect()
QfStart ==
  /\ qf = "start"
  /\ Connect
  /\ qf' = "connecting"
  /\ UNCHANGED <<collect, responses>>

\* connect() rejected: quickfire rejects, nothing is sent
QfFail ==
  /\ qf = "connecting"
  /\ promise[1] \in {"timeout", "wrongpw"}
  /\ qf' = "failed"
  /\ UNCHANGED <<prog, env, obs, hist, collect, responses>>

\* econ.on('message', msg => { responses.push(msg) })
QfSubscribe ==
  /\ qf = "connecting"
  /\ promise[1] = "resolved"
  /\ collect
  /\ On("message")
  /\ qf' = "subscribed"
  /\ UNCHANGED <<collect, responses>>

\* await econ.send(command), and what follows when the write was accepted:
\* setTimeout(..., collectResponsesFor) or the second branch
QfSend(command, flushed) ==
  /\ \/ qf = "subscribed"
     \/ qf = "connecting" /\ promise[1] = "resolved" /\ ~collect
  /\ Send(command, flushed)
  /\ qf' = IF threw' # "" THEN "failed"
           ELSE IF ~flushed THEN "draining"
           ELSE AfterSend
  /\ UNCHANGED <<collect, responses>>

\* the socket drains: the awaited send() completes
QfDrained(k) ==
  /\ qf = "draining"
  /\ Drain(k)
  /\ qf' = AfterSend
  /\ UNCHANGED <<collect, responses>>

\* the window timer: econ.disconnect(); resolve(responses)
QfWindowElapsed ==
  /\ qf = "window"
  /\ Disconnect
  /\ qf' = "returned"
  /\ UNCHANGED <<collect, responses>>

\* no window: econ.disconnect(); return
QfClose ==
  /\ qf = "closing"
  /\ Disconnect
  /\ qf' = "returned"
  /\ UNCHANGED <<collect, responses>>

\* the array quickfire resolved with: the responses array itself, not a copy
Returned == IF qf = "returned" /\ collect THEN responses ELSE <<>>

\* the listener quickfire registered, run for the listener calls ns
Push(r, ns) ==
  IF collect /\ ns # <<>> /\ ns[1][1] = "message" THEN Append(r, ns[1][2])
  ELSE r

\* a chunk arrives on quickfire's socket
QfData(k, c) ==
  /\ QfIdle
  /\ Data(k, c)
  /\ responses' = Push(responses, notes')
  /\ Len(responses') <= MaxResponses
  /\ UNCHANGED <<qf, collect>>

\* the handshake timer of quickfire's connect() fires
QfTimerFire(k) ==
  /\ QfIdle
  /\ TimerFire(k)
  /\ UNCHANGED quick

\* quickfire's socket fails
QfSockError(k) ==
  /\ QfIdle
  /\ SockError(k)
  /\ UNCHANGED quick

\* quickfire's socket is closed
QfSockClose(k) ==
  /\ QfIdle
  /\ SockClose(k)
  /\ UNCHANGED quick

\* a quickfire() call is about to be made
InitQuickfire ==
  /\ Fresh
  /\ qf = "start"
  /\ collect \in BOOLEAN
  /\ responses = <<>>

NextQuickfire ==
  \/ QfStart
  \/ QfFail
  \/ QfSubscribe
  \/ \E command \in Commands, flushed \in BOOLEAN : QfSend(command, flushed)
  \/ \E k \in Attempts : QfDrained(k)
  \/ QfWindowElapsed
  \/ QfClose
  \/ \E k \in Attempts, c \in Chunks : QfData(k, c)
  \/ \E k \in Attempts : QfTimerFire(k)
  \/ \E k \in Attempts : QfSockError(k)
  \/ \E k \in Attempts : QfSockClose(k)

SpecQuickfire == InitQuickfire /\ [][NextQuickfire]_vars

(* ------------------------------ claims -------------------------------- *)

Settled == {"resolved", "timeout", "wrongpw"}
Rejected == {"timeout", "wrongpw"}

\* a chunk that is exactly one line, terminator included, beginning with p
IsLine(c, p) ==
  /\ Len(c) > 0
  /\ c[Len(c)] = NL
  /\ \A i \in 1..(Len(c) - 1) : c[i] # NL
  /\ StartsWith(c, p)

\* the "\n"-terminated lines of text s, in order, terminators stripped
RECURSIVE CompleteLines(_)
CompleteLines(s) ==
  IF \A i \in 1..Len(s) : s[i] # NL THEN <<>>
  ELSE LET n == CHOOSE i \in 1..Len(s) :
                  s[i] = NL /\ \A j \in 1..(i - 1) : s[j] # NL
       IN <<SubSeq(s, 1, n - 1)>> \o CompleteLines(SubSeq(s, n + 1, Len(s)))

\* C1: while attempt k is in flight (state connecting on its own socket, its
\* connect() result pending), a line 'Enter password:' on socket k makes the
\* client write the password and "\n" to that socket and changes nothing
\* else, and a line 'Authentication successful.' resolves the result, sets
\* state to connected and cancels timer k; a cancelled timer stays cancelled,
\* a resolved result stays resolved, and no timer callback that runs while
\* state is connected closes the transport, changes state or rejects.
C1_HandshakeSucceeds ==
  [][\A k \in Attempts :
       /\ (state = "connecting" /\ conn = k /\ promise[k] = "pending") =>
            /\ (\E c \in Chunks : IsLine(c, PROMPT) /\ Data(k, c)) =>
                 /\ wrote' = << <<k, PASSWORD \o <<NL>> >> >>
                 /\ UNCHANGED <<prog, env>>
            /\ (\E c \in Chunks : IsLine(c, AUTH) /\ Data(k, c)) =>
                 /\ promise'[k] = "resolved"
                 /\ state' = "connected"
                 /\ conn' = k
                 /\ timeout' = 0
                 /\ timer'[k] = "cleared"
       /\ timer[k] = "cleared" => timer'[k] = "cleared"
       /\ promise[k] = "resolved" => promise'[k] = "resolved"
       /\ (state = "connected" /\ \E j \in Attempts : TimerFire(j)) =>
            UNCHANGED <<state, conn, ended, promise>>
    ]_vars

\* C1 witness: attempt k is authenticated and a timer callback has just run
C1_Witness ==
  \E k \in Attempts :
    /\ state = "connected" /\ conn = k
    /\ promise[k] = "resolved" /\ timer[k] = "cleared" /\ timeout = 0
    /\ op = "timer"

\* C2: when timer k fires while state is connecting and the connect() result
\* k is still pending (neither 'Authentication successful.' nor 'Wrong
\* password.' has settled it), the result is rejected with the timeout error,
\* the instance's transport is ended and released, and state is disconnected.
C2_TimeoutRejects ==
  [][\A k \in Attempts :
       (TimerFire(k) /\ state = "connecting" /\ promise[k] = "pending") =>
         /\ promise'[k] = "timeout"
         /\ state' = "disconnected"
         /\ conn # 0 /\ ended'[conn]
         /\ conn' = 0
         /\ threw' = ""
    ]_vars

\* C2 witness: timer k has just fired and timed attempt k out
C2_Witness ==
  \E k \in Attempts :
    /\ op = "timer" /\ timer[k] = "fired" /\ promise[k] = "timeout"
    /\ state = "disconnected" /\ conn = 0 /\ ended[k]

\* C3: whenever the result of the latest connect() is rejected, state is
\* disconnected, the transport handle is released and the attempt's timer is
\* not pending.
C3_FailedConnectLeavesNothing ==
  \A k \in Attempts :
    (k = nconn /\ promise[k] \in Rejected) =>
      /\ state = "disconnected"
      /\ conn = 0
      /\ timer[k] # "armed"

\* C4: a line 'Wrong password.' on socket k while state is connecting and
\* result k is pending rejects result k with the authentication error and
\* touches neither the transport nor state nor the timer; a disconnect()
\* after such a rejection leaves state disconnected, the transport released.
C4_WrongPassword ==
  [][/\ \A k \in Attempts :
          (/\ state = "connecting" /\ promise[k] = "pending"
           /\ \E c \in Chunks : IsLine(c, WRONG) /\ Data(k, c)) =>
            /\ promise'[k] = "wrongpw"
            /\ wrote' = <<>>
            /\ UNCHANGED <<prog, nconn, life, ended, timer, waiting>>
     /\ (Disconnect /\ \E k \in Attempts : promise[k] = "wrongpw") =>
          /\ state' = "disconnected"
          /\ conn' = 0
          /\ threw' = ""
    ]_vars

\* C4 witness: attempt k was refused and then closed by disconnect(), its
\* timer not yet fired
C4_Witness ==
  \E k \in Attempts :
    /\ op = "disconnect" /\ promise[k] = "wrongpw"
    /\ state = "disconnected" /\ conn = 0 /\ ended[k] /\ timer[k] = "armed"

\* C5: send() while state is disconnected or connecting throws the
\* not-connected error, writes nothing, and leaves state, transport, timers
\* and everything else of the instance as they were.
C5_SendNotConnected ==
  [][\A command \in Commands, flushed \in BOOLEAN :
       (Send(command, flushed) /\ state \in {"disconnected", "connecting"}) =>
         /\ threw' = "Connection not established"
         /\ wrote' = <<>>
         /\ UNCHANGED <<prog, env>>
    ]_vars

\* C5 witness: a send() during the handshake has just been refused
C5_Witness ==
  /\ op = "send" /\ threw = "Connection not established"
  /\ state = "connecting"

\* C6: connect() while state is connecting or connected fails with an error
\* and opens no socket and arms no timer.
C6_ConnectOnlyWhenDisconnected ==
  [][(Connect /\ state # "disconnected") =>
       /\ threw' # ""
       /\ UNCHANGED <<conn, timeout, nconn, life, timer, promise>>
    ]_vars

\* C7: once timer k has fired, connect() result k is settled; and a settled
\* result never changes.
C7_SettlesExactlyOnce ==
  [][\A k \in Attempts :
       /\ timer'[k] = "fired" => promise'[k] \in Settled
       /\ promise[k] \in Settled => promise'[k] = promise[k]
    ]_vars

\* C8: a close or error event of socket k while attempt k is connecting with
\* its result pending is passed to the registered listeners and rejects the
\* result in the same step.
C8_CloseFailsConnect ==
  [][\A k \in Attempts :
       (/\ SockClose(k) \/ SockError(k)
        /\ state = "connecting" /\ conn = k /\ promise[k] = "pending") =>
         /\ closeHook => notes' # <<>>
         /\ promise'[k] \in Rejected
    ]_vars

\* C9: the lines the 'data' listener takes up for a chunk are exactly the
\* lines that chunk completes in the stream: the text pending on the socket
\* followed by the chunk, cut at each "\n".
C9_FramingIgnoresChunking ==
  [][\A k \in Attempts, c \in Chunks :
       Data(k, c) => lines' = CompleteLines(pend[k] \o c)
    ]_vars

\* C10: disconnect() never throws and leaves state disconnected with the
\* transport handle released; called while state is disconnected it changes
\* nothing; called with a transport handle it ends that transport; it
\* touches nothing else.
C10_DisconnectIdempotent ==
  [][Disconnect =>
       /\ threw' = ""
       /\ state' = "disconnected"
       /\ conn' = 0
       /\ state = "disconnected" => UNCHANGED <<prog, env>>
       /\ conn # 0 => ended'[conn]
       /\ \A k \in Attempts : k # conn => ended'[k] = ended[k]
       /\ UNCHANGED <<timeout, messageHooks, closeHook, errorHook, nconn,
                      life, timer, promise, waiting>>
    ]_vars

\* C10 witness: disconnect() has just been called on an instance that never
\* connected
C10_Witness ==
  /\ op = "disconnect" /\ nconn = 0
  /\ state = "disconnected" /\ conn = 0 /\ threw = ""

\* the listener calls of kind "message" among ns
Messages(ns) == SelectSeq(ns, LAMBDA n : n[1] = "message")

\* C11: a line received while state is connecting is never handed to the
\* message listener, neither in that step nor later: the only message a step
\* delivers is the line of the chunk received in that very step, and only
\* when state is not connecting.
C11_HandshakeLinesNotDelivered ==
  [][/\ \A k \in Attempts, c \in Chunks :
          Data(k, c) =>
            /\ state = "connecting" => notes' = <<>>
            /\ notes' # <<>> => notes' = << <<"message", lines'[1]>> >>
     /\ op' # "data" => Messages(notes') = <<>>
    ]_vars

\* C11 witness: the password prompt has just been received during the
\* handshake, a message listener is registered, and nothing was delivered
C11_Witness ==
  /\ op = "data" /\ lines = <<PROMPT>> /\ state = "connecting"
  /\ messageHooks /\ notes = <<>> /\ wrote # <<>>

\* every command followed by one terminator
RECURSIVE EachTerminated(_)
EachTerminated(cmds) ==
  IF cmds = <<>> THEN <<>>
  ELSE cmds[1] \o <<NL>> \o EachTerminated(Tail(cmds))

\* C12: send() while state is connected issues exactly one write, to the
\* instance's transport, whose text is every command followed by one "\n".
C12_SendPayload ==
  [][\A command \in Commands, flushed \in BOOLEAN :
       (Send(command, flushed) /\ state = "connected") =>
         /\ Len(wrote') = 1
         /\ wrote'[1] = <<conn, EachTerminated(command.cmds)>>
         /\ threw' = ""
    ]_vars

\* C12 witness: send(['status', 'echo hi']) has just written
\* 'status\necho hi\n'
C12_Witness ==
  /\ op = "send" /\ state = "connected"
  /\ wrote = << <<conn, <<"status", NL, "echo hi", NL>> >> >>

\* C13: a send() while connected whose write reports a full buffer leaves
\* its result waiting on the transport, and one whose write is accepted is
\* complete at once; a waiting result completes at the 'drain' of its
\* socket and at no other step; so when no result is waiting before a
\* send(), at most one is waiting after it, and the write is issued in the
\* step of the call.
C13_BackpressuredSend ==
  [][/\ \A command \in Commands, flushed \in BOOLEAN :
          (Send(command, flushed) /\ state = "connected") =>
            /\ wrote' # <<>>
            /\ flushed => waiting' = waiting
            /\ ~flushed => waiting' = [waiting EXCEPT ![conn] = @ + 1]
            /\ (\A k \in Attempts : waiting[k] = 0) =>
                 \A k \in Attempts : waiting'[k] <= 1
     /\ \A k \in Attempts :
          /\ waiting'[k] < waiting[k] => (Drain(k) /\ waiting'[k] = 0)
          /\ Drain(k) => waiting'[k] = 0
          /\ waiting'[k] > waiting[k] => op' = "send"
    ]_vars

\* C13 witness: a send() has just found the buffer full and waits
C13_Witness ==
  /\ op = "send" /\ state = "connected" /\ wrote # <<>>
  /\ waiting[conn] = 1

\* C15: in every state the timer handle is set exactly when state is
\* connecting.
C15_TimerIffConnecting ==
  (timeout # 0) <=> (state = "connecting")

\* C16: the timer of an attempt whose transport was ended by disconnect()
\* does nothing when it fires: it closes no transport, changes no state and
\* settles no connect() result.
C16_DisconnectCancelsTimer ==
  [][\A k \in Attempts :
       (TimerFire(k) /\ ended[k]) =>
         UNCHANGED <<state, conn, ended, promise>>
    ]_vars

\* C17: a step hands a line to the message listener only if state was
\* connected when the line was received.
C17_MessagesOnlyWhenConnected ==
  [][Messages(notes') # <<>> => state = "connected"]_vars

\* C19: in every state the transport handle is set exactly when state is
\* connecting or connected, and no call has failed on a missing transport.
C19_TransportIffActive ==
  /\ (conn # 0) <=> (state \in {"connecting", "connected"})
  /\ threw # "TypeError"

\* C19 witness: a send() while connected has just written to the transport
C19_Witness ==
  /\ op = "send" /\ state = "connected" /\ conn # 0 /\ wrote # <<>>

\* C20: a close or error event of a socket calls the registered close and
\* error listeners and changes nothing else: state, transport handle, timer
\* handle, timers, results and waiting sends stay as they are; and a send()
\* while connected on a transport that has closed still issues its write.
C20_CloseOnlyNotifies ==
  [][/\ \A k \in Attempts :
          (SockClose(k) \/ SockError(k)) =>
            /\ UNCHANGED <<prog, nconn, ended, timer, promise, waiting>>
            /\ wrote' = <<>>
            /\ threw' = ""
            /\ Messages(notes') = <<>>
            /\ closeHook => \E i \in 1..Len(notes') : notes'[i][1] = "close"
            /\ ~closeHook /\ ~errorHook => notes' = <<>>
     /\ \A command \in Commands, flushed \in BOOLEAN :
          (/\ Send(command, flushed)
           /\ state = "connected" /\ conn # 0 /\ life[conn] = "closed") =>
            wrote' = << <<conn, Payload(command)>> >>
    ]_vars

\* C20 witness: the socket has closed, state is still connected and a
\* send() has just written to it
C20_Witness ==
  /\ op = "send" /\ state = "connected" /\ conn # 0
  /\ life[conn] = "closed" /\ wrote # <<>>

\* the step writes the password: a write issued by the 'data' listener
PasswordWrite == op' = "data" /\ wrote' # <<>>

\* C18: a password write is issued only for a line beginning 'Enter
\* password:' received while state is connecting, changes no state, never
\* happens while state is connected or disconnected, and is the first one
\* to the transport of the attempt.
C18_PasswordOnce ==
  [][PasswordWrite =>
       /\ state = "connecting"
       /\ StartsWith(lines'[1], PROMPT)
       /\ wrote' = << <<conn, PASSWORD \o <<NL>> >> >>
       /\ UNCHANGED <<prog, env>>
       /\ ~pwsent
    ]_vars

\* C18 as amended: a password write is issued for every line beginning
\* 'Enter password:' received while state is connecting, one write of the
\* password and "\n" to the instance's transport per such line (so again if
\* the prompt comes again), and for nothing else; it changes no state and
\* never happens while state is connected or disconnected.
C18_PasswordPerPrompt ==
  [][/\ PasswordWrite =>
          /\ state = "connecting"
          /\ StartsWith(lines'[1], PROMPT)
          /\ wrote' = << <<conn, PASSWORD \o <<NL>> >> >>
          /\ UNCHANGED <<prog, env>>
     /\ (op' = "data" /\ state = "connecting" /\ StartsWith(lines'[1], PROMPT))
          => wrote' = << <<conn, PASSWORD \o <<NL>> >> >>
     /\ wrote' # <<>> => op' \in {"data", "send"}
    ]_vars

\* C18 witness: the prompt has just been answered with the password during
\* the handshake
C18_Witness ==
  /\ op = "data" /\ state = "connecting" /\ pwsent
  /\ StartsWith(lines[1], PROMPT)
  /\ wrote = << <<conn, PASSWORD \o <<NL>> >> >>

\* C14: quickfire with a window disconnects when the window elapses and
\* returns the lines that arrived, in arrival order: while the call runs
\* the array only grows by the line of the chunk just received, after the
\* command was sent; when the window elapses state is disconnected and the
\* call has returned; and the returned sequence never changes afterwards.
C14_QuickfireWindow ==
  [][/\ (qf = "window" /\ qf' # "window") =>
          (qf' = "returned" /\ state' = "disconnected" /\ conn' = 0)
     /\ (responses' # responses /\ qf # "returned") =>
          /\ qf \in {"draining", "window"}
          /\ op' = "data"
          /\ responses' = Append(responses, lines'[1])
     /\ qf = "returned" => Returned' = Returned
    ]_vars

====
